---- MODULE Spec2Model ----
(***************************************************************************)
(* Clock tree configuration of the STM32F746 examples                      *)
(* (X50-Ethernet/system_stm32f746.c and system_stm32f746.h).               *)
(*                                                                         *)
(* Registers are 32-bit words, modelled as the set of the positions of     *)
(* their set bits, so that the masks, shifts and read-modify-writes of the *)
(* code are set operations and are taken over bit for bit.  Each register  *)
(* write of a function is one step; the busy-waits are steps that wait for *)
(* the ready bit the hardware raises.                                      *)
(***************************************************************************)
EXTENDS Integers, Sequences, FiniteSets, TLC

VARIABLES
    RCC_CR,             \* RCC->CR
    RCC_CFGR,           \* RCC->CFGR
    RCC_PLLCFGR,        \* RCC->PLLCFGR
    RCC_PLLSAICFGR,     \* RCC->PLLSAICFGR
    RCC_PLLI2SCFGR,     \* RCC->PLLI2SCFGR
    FLASH_ACR,          \* FLASH->ACR
    FLASH_CR,           \* FLASH->CR
    SystemCoreClock,    \* cached core clock frequency (Hz)
    MainPLLConfigured,  \* flag: SystemConfigMainPLL completed
    pc,                 \* position of the program
    stack,              \* return positions of the calls in progress
    cmp,                \* locals of SystemConfigMainPLL
    scc,                \* locals of SystemSetCoreClock
    aux,                \* parameter of the simple calls in progress
    retval              \* value returned by the last call of a function that only computes

vars == <<RCC_CR, RCC_CFGR, RCC_PLLCFGR, RCC_PLLSAICFGR, RCC_PLLI2SCFGR,
          FLASH_ACR, FLASH_CR, SystemCoreClock, MainPLLConfigured,
          pc, stack, cmp, scc, aux, retval>>

-----------------------------------------------------------------------------
(* Words *)

\* the word of a non-negative number below 2^31
Bits(n) == {i \in 0..30 : (n \div (2^i)) % 2 = 1}

\* the word of a C int (two's complement)
IntBits(n) == IF n >= 0 THEN Bits(n) ELSE Bits((n + 2147483647) + 1) \cup {31}

RECURSIVE Val(_)
\* the number a word below 2^31 stands for
Val(w) == IF w = {} THEN 0
          ELSE LET i == CHOOSE x \in w : \A y \in w : y <= x
               IN  2^i + Val(w \ {i})

Pos(mask) == CHOOSE i \in mask : \A j \in mask : i <= j

\* (v << pos) of a word
ShiftL(w, pos) == {i + pos : i \in w} \cap (0..31)

\* (reg & mask) >> Pos(mask)
Field(reg, mask) == Val({i - Pos(mask) : i \in reg \cap mask})

-----------------------------------------------------------------------------
(* Register layout (CMSIS names) *)

RCC_CR_HSION     == {0}
RCC_CR_HSIRDY    == {1}
RCC_CR_HSEON     == {16}
RCC_CR_HSERDY    == {17}
RCC_CR_HSEBYP    == {18}
RCC_CR_PLLON     == {24}
RCC_CR_PLLRDY    == {25}
RCC_CR_PLLI2SON  == {26}
RCC_CR_PLLI2SRDY == {27}
RCC_CR_PLLSAION  == {28}
RCC_CR_PLLSAIRDY == {29}

RCC_CFGR_SW    == 0..1
RCC_CFGR_SWS   == 2..3
RCC_CFGR_HPRE  == 4..7
RCC_CFGR_PPRE1 == 10..12
RCC_CFGR_PPRE2 == 13..15

RCC_CFGR_SW_HSI == {}
RCC_CFGR_SW_HSE == {0}
RCC_CFGR_SW_PLL == {1}

RCC_PLLCFGR_PLLM   == 0..5
RCC_PLLCFGR_PLLN   == 6..14
RCC_PLLCFGR_PLLP   == 16..17
RCC_PLLCFGR_PLLSRC == {22}
RCC_PLLCFGR_PLLQ   == 24..27

\* the N, P, Q and R fields of PLLSAICFGR and of PLLI2SCFGR
RCC_PLLAUX == [N |-> 6..14, P |-> 16..17, Q |-> 24..27, R |-> 28..30]

FLASH_ACR_LATENCY == 0..3
FLASH_ACR_PRFTEN  == {8}
FLASH_ACR_ARTEN   == {9}
FLASH_ACR_ARTRST  == {11}

-----------------------------------------------------------------------------
(* Constants of the board support section *)

VSUPPLY  == 3300
HSE_FREQ == 25000000
HSI_FREQ == 16000000
HCLKMAX  == 216000000
MAXWAITSTATES == 9

CLOCKSRC_HSI == 0
CLOCKSRC_HSE == 4
CLOCKSRC_PLL == 8

hpre_table == <<1,1,1,1,1,1,1,1, 2,4,8,16,64,128,256,512>>
ppre_table == <<1,1,1,1, 2,4,8,16>>

MainPLLConfiguration_200MHz ==
    [source |-> CLOCKSRC_HSE, M |-> HSE_FREQ \div 1000000, N |-> 400, P |-> 2, Q |-> 2, R |-> 2]

MainPLLConfiguration_216MHz ==
    [source |-> CLOCKSRC_HSE, M |-> HSE_FREQ \div 1000000, N |-> 432, P |-> 2, Q |-> 2, R |-> 2]

\* variant: the default preset programs the factor of 216 MHz
ClockConfiguration200MHz_N432 ==
    [source |-> CLOCKSRC_HSE, M |-> HSE_FREQ \div 1000000, N |-> 432, P |-> 2, Q |-> 2, R |-> 2]

ClockConfiguration200MHz ==
    [source |-> CLOCKSRC_HSE, M |-> HSE_FREQ \div 1000000, N |-> 400, P |-> 2, Q |-> 2, R |-> 2]

PLLSAIConfiguration_48MHz ==
    [source |-> 0, M |-> HSE_FREQ \div 1000, N |-> 144, P |-> 3, Q |-> 3, R |-> 2]

\* variant: the row of 2700 mV holds the frequencies of the row of 1800 mV
flashwaitstates_tab_LowFirst == <<
    [vmin |-> 2700, freqmax |-> <<20, 40, 60,  80, 100, 120, 140, 160, 180,   0, 0>>],
    [vmin |-> 2400, freqmax |-> <<24, 48, 72,  96, 120, 144, 168, 192, 216,   0, 0>>],
    [vmin |-> 2100, freqmax |-> <<22, 44, 66,  88, 110, 132, 154, 176, 198, 216, 0>>],
    [vmin |-> 1800, freqmax |-> <<20, 40, 60,  80, 100, 120, 140, 160, 180,   0, 0>>],
    [vmin |->    0, freqmax |-> << 0,  0,  0,   0,   0,   0,   0,   0,   0,   0, 0>>] >>

flashwaitstates_tab == <<
    [vmin |-> 2700, freqmax |-> <<30, 60, 90, 120, 150, 180, 210, 216,   0,   0, 0>>],
    [vmin |-> 2400, freqmax |-> <<24, 48, 72,  96, 120, 144, 168, 192, 216,   0, 0>>],
    [vmin |-> 2100, freqmax |-> <<22, 44, 66,  88, 110, 132, 154, 176, 198, 216, 0>>],
    [vmin |-> 1800, freqmax |-> <<20, 40, 60,  80, 100, 120, 140, 160, 180,   0, 0>>],
    [vmin |->    0, freqmax |-> << 0,  0,  0,   0,   0,   0,   0,   0,   0,   0, 0>>] >>

-----------------------------------------------------------------------------
(* Divisor solver *)

iabs(k) == IF k < 0 THEN -k ELSE k

RECURSIVE Power2Loop_TieUp(_, _, _, _)
\* variant: the loop goes on while the error does not grow
Power2Loop_TieUp(i, n, err, divisor) ==
    IF i >= 20 THEN [i |-> i, n |-> n]
    ELSE LET k == 2^i
             e == iabs(divisor - k)
         IN  IF e > err THEN [i |-> i - 1, n |-> n]
             ELSE Power2Loop_TieUp(i + 1, k, e, divisor)

RECURSIVE Power2Loop(_, _, _, _)
\* the loop shared by the four power-of-two searches: the values of i and n
\* when the loop is left (i already decremented on a break)
Power2Loop(i, n, err, divisor) ==
    IF i >= 20 THEN [i |-> i, n |-> n]
    ELSE LET k == 2^i
             e == iabs(divisor - k)
         IN  IF e >= err THEN [i |-> i - 1, n |-> n]
             ELSE Power2Loop(i + 1, k, e, divisor)

SystemFindNearestPower2(divisor) == Power2Loop(0, 1, 10000000, divisor).n

SystemFindNearestPower2Exp(divisor) == Power2Loop(0, 1, 10000000, divisor).i

\* variant: the result is not doubled when it is below the divisor
SystemFindLargestPower2_Nearest(divisor) == Power2Loop(0, 1, 10000000, divisor).n

\* variant: the exponent is not put back after the break
SystemFindLargestPower2Exp_Next(divisor) ==
    LET r == Power2Loop(0, 1, 10000000, divisor)
    IN  IF r.n < divisor THEN r.i + 2 ELSE r.i + 1

SystemFindLargestPower2(divisor) ==
    LET r == Power2Loop(0, 1, 10000000, divisor)
    IN  IF r.n < divisor THEN 2 * r.n ELSE r.n

SystemFindLargestPower2Exp(divisor) ==
    LET r == Power2Loop(0, 1, 10000000, divisor)
    IN  IF r.n < divisor THEN r.i + 1 ELSE r.i

FindHPRE(divisor) ==
    IF divisor <= 1 THEN 0
    ELSE IF divisor >= 512 THEN 15
    ELSE LET k == SystemFindLargestPower2(divisor)
         IN  IF k <= 1 THEN 0
             ELSE IF k < 5 THEN 8 + k - 1
             ELSE IF k = 5 THEN 12
             ELSE 8 + k - 2

-----------------------------------------------------------------------------
(* Flash wait states *)

RECURSIVE FindVoltageRow(_, _)
FindVoltageRow(i, voltage) ==
    IF flashwaitstates_tab[i + 1].vmin # 0 /\ voltage < flashwaitstates_tab[i + 1].vmin
    THEN FindVoltageRow(i + 1, voltage)
    ELSE i

RECURSIVE FindFrequencyColumn_ge(_, _, _)
\* variant: a frequency equal to the maximum of a column moves to the next column
FindFrequencyColumn_ge(i, j, freq) ==
    IF flashwaitstates_tab[i + 1].freqmax[j + 1] # 0
       /\ freq >= flashwaitstates_tab[i + 1].freqmax[j + 1]
    THEN FindFrequencyColumn_ge(i, j + 1, freq)
    ELSE j

RECURSIVE FindFrequencyColumn(_, _, _)
FindFrequencyColumn(i, j, freq) ==
    IF flashwaitstates_tab[i + 1].freqmax[j + 1] # 0
       /\ freq > flashwaitstates_tab[i + 1].freqmax[j + 1]
    THEN FindFrequencyColumn(i, j + 1, freq)
    ELSE j

\* variant: the result is the number of columns passed and taken, not the index
FindFlashWaitStates_Count(freq, voltage) ==
    LET i == FindVoltageRow(0, voltage)
    IN  IF flashwaitstates_tab[i + 1].vmin = 0 THEN -1
        ELSE LET j == FindFrequencyColumn(i, 0, freq)
             IN  IF flashwaitstates_tab[i + 1].freqmax[j + 1] = 0 THEN -1 ELSE j + 1

FindFlashWaitStates(freq, voltage) ==
    LET i == FindVoltageRow(0, voltage)
    IN  IF flashwaitstates_tab[i + 1].vmin = 0 THEN -1
        ELSE LET j == FindFrequencyColumn(i, 0, freq)
             IN  IF flashwaitstates_tab[i + 1].freqmax[j + 1] = 0 THEN -1 ELSE j

\* the value SetFlashWaitStates(n) writes to FLASH->ACR: the rest of the word
\* is read from FLASH->CR
SetFlashWaitStates(n) == (FLASH_CR \ FLASH_ACR_LATENCY) \cup ShiftL(IntBits(n), Pos(FLASH_ACR_LATENCY))

\* the test "ws < 0" of ConfigureFlashWaitStates, ws being a uint32_t
WaitStatesLookupFailed(ws) == FALSE

\* the value ConfigureFlashWaitStates(freq, voltage) leaves in FLASH->ACR
ConfigureFlashWaitStates(freq, voltage) ==
    LET ws == FindFlashWaitStates(freq, voltage)
    IN  IF WaitStatesLookupFailed(ws) THEN FLASH_ACR ELSE SetFlashWaitStates(ws)

-----------------------------------------------------------------------------
(* PLL frequency model *)

\* variant: the division by M comes before the product
MulDiv_DivideFirst(infreq, N, M) == (infreq \div M) * N

\* floor(infreq*N/M) without an intermediate product beyond the word of the checker
MulDiv(infreq, N, M) == (infreq \div M) * N + ((infreq % M) * N) \div M

\* the configuration makes CalculateMainPLLOutFrequency divide by zero
PLLDivisionByZero(pllconfig) ==
    /\ pllconfig.source \in {CLOCKSRC_HSI, CLOCKSRC_HSE}
    /\ (pllconfig.M = 0 \/ pllconfig.P = 0)

CalculateMainPLLOutFrequency(pllconfig) ==
    IF pllconfig.source = CLOCKSRC_HSI THEN MulDiv(HSI_FREQ, pllconfig.N, pllconfig.M) \div pllconfig.P
    ELSE IF pllconfig.source = CLOCKSRC_HSE THEN MulDiv(HSE_FREQ, pllconfig.N, pllconfig.M) \div pllconfig.P
    ELSE 0

\* the struct SystemCalcPLLFrequencies fills (the source being HSI or HSE)
SystemCalcPLLFrequencies(pllconfig) ==
    LET infreq == IF pllconfig.source = CLOCKSRC_HSI THEN HSI_FREQ ELSE HSE_FREQ
        vcofreq == MulDiv(infreq, pllconfig.N, pllconfig.M)
    IN  [infreq    |-> infreq,
         pllinfreq |-> infreq \div pllconfig.M,
         vcofreq   |-> vcofreq,
         poutfreq  |-> IF pllconfig.P # 0 THEN vcofreq \div pllconfig.P ELSE 0,
         qoutfreq  |-> IF pllconfig.Q # 0 THEN vcofreq \div pllconfig.Q ELSE 0,
         routfreq  |-> IF pllconfig.R # 0 THEN vcofreq \div pllconfig.R ELSE 0]

\* SystemGetPLLConfiguration(PLL_MAIN, ...): the P field decoded as 2*P+2
SystemGetPLLConfiguration ==
    [source |-> IF RCC_PLLCFGR \cap RCC_PLLCFGR_PLLSRC # {} THEN CLOCKSRC_HSE ELSE CLOCKSRC_HSI,
     M |-> Field(RCC_PLLCFGR, RCC_PLLCFGR_PLLM),
     N |-> Field(RCC_PLLCFGR, RCC_PLLCFGR_PLLN),
     P |-> Field(RCC_PLLCFGR, RCC_PLLCFGR_PLLP) * 2 + 2,
     Q |-> Val({i - Pos(RCC_PLLCFGR_PLLQ) : i \in {b \in RCC_PLLCFGR \cap RCC_PLLCFGR_PLLP : b >= Pos(RCC_PLLCFGR_PLLQ)}}),
     R |-> 0]

SystemCheckPLLConfiguration(pllconfig) ==
    IF pllconfig.M < 2 \/ pllconfig.M > 63 THEN -1
    ELSE IF pllconfig.N < 50 \/ pllconfig.M > 432 THEN -2
    ELSE IF pllconfig.P # 2 /\ pllconfig.P # 4 /\ pllconfig.P # 6 /\ pllconfig.P # 8 THEN -3
    ELSE IF pllconfig.Q < 2 \/ pllconfig.Q > 15 THEN -4
    ELSE IF pllconfig.R # 0 /\ (pllconfig.R < 2 \/ pllconfig.R > 7) THEN -4
    ELSE 0

-----------------------------------------------------------------------------
(* Frequencies read from the registers *)

SystemGetAHBPrescaler  == hpre_table[Field(RCC_CFGR, RCC_CFGR_HPRE) + 1]
SystemGetAPB1Prescaler == ppre_table[Field(RCC_CFGR, RCC_CFGR_PPRE1) + 1]
SystemGetAPB2Prescaler == ppre_table[Field(RCC_CFGR, RCC_CFGR_PPRE2) + 1]

\* the configuration SystemGetSYSCLKFrequency reads from PLLCFGR (P is the raw field)
SYSCLKPLLConfiguration ==
    [source |-> IF RCC_PLLCFGR \cap RCC_PLLCFGR_PLLSRC = {} THEN CLOCKSRC_HSI ELSE CLOCKSRC_HSE,
     M |-> Field(RCC_PLLCFGR, RCC_PLLCFGR_PLLM),
     N |-> Field(RCC_PLLCFGR, RCC_PLLCFGR_PLLN),
     P |-> Field(RCC_PLLCFGR, RCC_PLLCFGR_PLLP)]

\* SystemGetCoreClock would divide by zero in the current state
CoreClockDivisionByZero ==
    /\ RCC_CFGR \cap RCC_CFGR_SWS = ShiftL(RCC_CFGR_SW_PLL, Pos(RCC_CFGR_SWS))
    /\ PLLDivisionByZero(SYSCLKPLLConfiguration)

SystemGetSYSCLKFrequency ==
    LET src == RCC_CFGR \cap RCC_CFGR_SWS
    IN  IF src = ShiftL(RCC_CFGR_SW_HSI, Pos(RCC_CFGR_SWS)) THEN HSI_FREQ
        ELSE IF src = ShiftL(RCC_CFGR_SW_HSE, Pos(RCC_CFGR_SWS)) THEN HSE_FREQ
        ELSE IF src = ShiftL(RCC_CFGR_SW_PLL, Pos(RCC_CFGR_SWS))
             THEN CalculateMainPLLOutFrequency(SYSCLKPLLConfiguration)
        ELSE 0

SystemGetCoreClock == SystemGetSYSCLKFrequency \div SystemGetAHBPrescaler

-----------------------------------------------------------------------------
(* Hardware: ready bits and the clock switch status *)

Oscillators == {
    [on |-> RCC_CR_HSION,    rdy |-> RCC_CR_HSIRDY],
    [on |-> RCC_CR_HSEON,    rdy |-> RCC_CR_HSERDY],
    [on |-> RCC_CR_PLLON,    rdy |-> RCC_CR_PLLRDY],
    [on |-> RCC_CR_PLLI2SON, rdy |-> RCC_CR_PLLI2SRDY],
    [on |-> RCC_CR_PLLSAION, rdy |-> RCC_CR_PLLSAIRDY] }

\* RCC->CR after the program wrote w: the ready bits are read-only and a ready
\* bit stays up only while its oscillator stays on
WriteCR(w) ==
    (w \ UNION {o.rdy : o \in Oscillators})
        \cup UNION {o.rdy : o \in {x \in Oscillators : x.on \subseteq w /\ x.rdy \subseteq RCC_CR}}

\* the status field SWS follows SW once the selected source is ready
SwitchStatus(cfgr, cr) ==
    IF LET sw == cfgr \cap RCC_CFGR_SW
       IN  \/ sw = RCC_CFGR_SW_HSI /\ RCC_CR_HSIRDY \subseteq cr
           \/ sw = RCC_CFGR_SW_HSE /\ RCC_CR_HSERDY \subseteq cr
           \/ sw = RCC_CFGR_SW_PLL /\ RCC_CR_PLLRDY \subseteq cr
    THEN (cfgr \ RCC_CFGR_SWS) \cup ShiftL(cfgr \cap RCC_CFGR_SW, Pos(RCC_CFGR_SWS))
    ELSE cfgr

\* RCC->CFGR after the program wrote w: SWS is read-only
WriteCFGR(w) == SwitchStatus((w \ RCC_CFGR_SWS) \cup (RCC_CFGR \cap RCC_CFGR_SWS), RCC_CR)

-----------------------------------------------------------------------------
(* Values the functions write *)

\* SystemSetHPRE / the HPRE write of SystemSetAHBPrescaler and SystemSetCoreClock
HPREValue(hpre) == (RCC_CFGR \ RCC_CFGR_HPRE) \cup ShiftL(Bits(hpre), Pos(RCC_CFGR_HPRE))

\* the early return of SystemSetAPB1Prescaler
APB1Skips(div) == SystemCoreClock \div div > 54000000

APB1Value(div) ==
    LET p2    == SystemFindLargestPower2Exp(div)
        ppre1 == IF p2 = 0 THEN 0 ELSE 4 + p2 - 1
    IN  (RCC_CFGR \ RCC_CFGR_PPRE1) \cup ShiftL(Bits(ppre1), Pos(RCC_CFGR_PPRE1))

\* the early return of SystemSetAPB2Prescaler
APB2Skips(div) == SystemCoreClock \div div > 54000000

APB2Value(div) ==
    LET p2    == SystemFindLargestPower2Exp(div)
        ppre2 == IF p2 = 0 THEN 0 ELSE 4 + p2 - 1
    IN  (RCC_CFGR \ RCC_CFGR_PPRE2) \cup ShiftL(Bits(ppre2), Pos(RCC_CFGR_PPRE2))

\* SystemConfigMainPLL: the two writes of the mux
MuxToHSIValue == (RCC_CFGR \cap RCC_CFGR_SW) \cup RCC_CFGR_SW_HSI

\* variant: the change back selects HSE
MuxBackToPLLValue_HSE == (RCC_CFGR \cap RCC_CFGR_SW) \cup RCC_CFGR_SW_HSE

MuxBackToPLLValue == (RCC_CFGR \cap RCC_CFGR_SW) \cup RCC_CFGR_SW_PLL

\* SystemSetCoreClock: the writes of the mux
SwitchValue(sw) == (RCC_CFGR \ RCC_CFGR_SW) \cup sw

\* SystemConfigMainPLL: the value written to PLLCFGR
MainPLLCFGRValue(pllconfig) ==
    LET src == IF pllconfig.source = CLOCKSRC_HSI THEN RCC_CFGR_SW_HSI ELSE RCC_CFGR_SW_HSE
    IN  (RCC_PLLCFGR \ (RCC_PLLCFGR_PLLM \cup RCC_PLLCFGR_PLLN \cup RCC_PLLCFGR_PLLP
                        \cup RCC_PLLCFGR_PLLQ \cup RCC_PLLCFGR_PLLSRC))
        \cup (ShiftL(Bits(pllconfig.M), Pos(RCC_PLLCFGR_PLLM)) \cap RCC_PLLCFGR_PLLM)
        \cup (ShiftL(Bits(pllconfig.N), Pos(RCC_PLLCFGR_PLLN)) \cap RCC_PLLCFGR_PLLN)
        \cup (ShiftL(Bits(pllconfig.P), Pos(RCC_PLLCFGR_PLLP)) \cap RCC_PLLCFGR_PLLP)
        \cup (ShiftL(Bits(pllconfig.Q), Pos(RCC_PLLCFGR_PLLQ)) \cap RCC_PLLCFGR_PLLQ)
        \cup (ShiftL(src, Pos(RCC_PLLCFGR_PLLSRC)) \cap RCC_PLLCFGR_PLLSRC)

\* SystemConfigPLLSAI / SystemConfigPLLI2S: the value written to the register reg
AuxPLLCFGRValue(reg, pllconfig) ==
    (reg \ (RCC_PLLAUX.N \cup RCC_PLLAUX.P \cup RCC_PLLAUX.Q \cup RCC_PLLAUX.R))
        \cup (ShiftL(Bits(pllconfig.N), Pos(RCC_PLLAUX.N)) \cap RCC_PLLAUX.N)
        \cup (ShiftL(Bits(pllconfig.P), Pos(RCC_PLLAUX.P)) \cap RCC_PLLAUX.P)
        \cup (ShiftL(Bits(pllconfig.Q), Pos(RCC_PLLAUX.Q)) \cap RCC_PLLAUX.Q)
        \cup (ShiftL(Bits(pllconfig.R), Pos(RCC_PLLAUX.R)) \cap RCC_PLLAUX.R)

\* variant: the auxiliary PLLs are configured whatever the flag says
AuxPLLRefused_never == FALSE

\* variant: SystemSetCoreClock never programs the default preset
NeedsDefaultPLL_never == FALSE

\* variant: the auxiliary PLLs are refused while the main PLL is switched off
AuxPLLRefused_PLLOff == ~(RCC_CR_PLLON \subseteq RCC_CR)

\* the guard of SystemConfigPLLSAI and SystemConfigPLLI2S
AuxPLLRefused == MainPLLConfigured = 0

\* SystemSetCoreClock: the PLL is requested and was never configured
NeedsDefaultPLL == MainPLLConfigured = 0

\* SystemSetCoreClock: "newsrc == src", src being the SW field
SameSource(newsrc) == newsrc = Field(RCC_CFGR, RCC_CFGR_SW)

\* a quotient of a division by zero: not defined by the language; the library
\* routine returns zero or a saturated word (the largest word of the model)
DivisionByZeroResults == {0, 2147483647}

-----------------------------------------------------------------------------
(* Inputs of the calls *)

\* the AHB divisors requested are 1..MaxDiv
MaxDiv == 2

\* the sources requested: HSI, HSE, PLL and a value that is none of them
RequestedSources == {CLOCKSRC_HSI, CLOCKSRC_HSE, CLOCKSRC_PLL, 12}

\* the main PLL configurations requested: the presets, one on HSI, one with
\* P = 4 and one whose source is not an oscillator
MainPLLInputs == {
    MainPLLConfiguration_200MHz,
    MainPLLConfiguration_216MHz,
    [source |-> CLOCKSRC_HSI, M |-> 16, N |-> 336, P |-> 2, Q |-> 7, R |-> 0],
    [source |-> CLOCKSRC_HSE, M |-> 25, N |-> 432, P |-> 4, Q |-> 9, R |-> 0],
    [source |-> CLOCKSRC_PLL, M |-> 25, N |-> 400, P |-> 2, Q |-> 2, R |-> 2] }

\* the APB divisors requested
APBDivisors == {1, 2, 4}

NoConfig == [source |-> 0, M |-> 0, N |-> 0, P |-> 0, Q |-> 0, R |-> 0]

\* the locals and parameters while no call is in progress
Idle == [cmp |-> [pllconfig |-> NoConfig, pllwascoreclock |-> 0,
                  entry |-> [cfgr |-> {}, pllcfgr |-> {}]],
         scc |-> [newsrc |-> 0, newdiv |-> 0, ppre1 |-> 0, ppre2 |-> 0,
                  entry |-> [cfgr |-> {}, clock |-> 0, configured |-> 0]],
         aux |-> [freq |-> 0, div |-> 0, pllconfig |-> NoConfig]]

-----------------------------------------------------------------------------
(* State after power-on reset *)

Init ==
    /\ RCC_CR = Bits(131)                   \* 0x00000083
    /\ RCC_CFGR = {}
    /\ RCC_PLLCFGR = Bits(603992080)        \* 0x24003010
    /\ RCC_PLLSAICFGR = Bits(603992064)     \* 0x24003000
    /\ RCC_PLLI2SCFGR = Bits(603992064)
    /\ FLASH_ACR = {}
    /\ FLASH_CR = {31}                      \* FLASH_CR_LOCK
    /\ SystemCoreClock = HSI_FREQ
    /\ MainPLLConfigured = 0
    /\ pc = "reset"
    /\ stack = <<>>
    /\ cmp = Idle.cmp
    /\ scc = Idle.scc
    /\ aux = Idle.aux
    /\ retval = 0

-----------------------------------------------------------------------------
(* Steps *)

Step(from, to) == pc = from /\ pc' = to /\ UNCHANGED stack

\* the statement "reg = w": the named register takes w, masked by the hardware
\* where the hardware owns bits of it; nothing else is written
Store(reg, w) ==
    /\ RCC_CR' = IF reg = "CR" THEN WriteCR(w) ELSE RCC_CR
    /\ RCC_CFGR' = IF reg = "CFGR" THEN WriteCFGR(w) ELSE RCC_CFGR
    /\ RCC_PLLCFGR' = IF reg = "PLLCFGR" THEN w ELSE RCC_PLLCFGR
    /\ RCC_PLLSAICFGR' = IF reg = "PLLSAICFGR" THEN w ELSE RCC_PLLSAICFGR
    /\ RCC_PLLI2SCFGR' = IF reg = "PLLI2SCFGR" THEN w ELSE RCC_PLLI2SCFGR
    /\ FLASH_ACR' = IF reg = "ACR" THEN w ELSE FLASH_ACR
    /\ UNCHANGED <<FLASH_CR, SystemCoreClock, MainPLLConfigured, retval>>

NoStore ==
    UNCHANGED <<RCC_CR, RCC_CFGR, RCC_PLLCFGR, RCC_PLLSAICFGR, RCC_PLLI2SCFGR, FLASH_ACR, FLASH_CR,
                SystemCoreClock, MainPLLConfigured, retval>>

\* the busy-wait for a ready bit
WaitReady(rdy) == rdy \subseteq RCC_CR /\ NoStore

SystemSetAPB1Prescaler(div) == IF APB1Skips(div) THEN NoStore ELSE Store("CFGR", APB1Value(div))

SystemSetAPB2Prescaler(div) == IF APB2Skips(div) THEN NoStore ELSE Store("CFGR", APB2Value(div))

SystemSetAHBPrescaler(div) == Store("CFGR", HPREValue(FindHPRE(div)))

SystemCoreClockUpdate ==
    /\ SystemCoreClock' \in IF CoreClockDivisionByZero THEN DivisionByZeroResults
                              ELSE {SystemGetCoreClock}
    /\ UNCHANGED <<RCC_CR, RCC_CFGR, RCC_PLLCFGR, RCC_PLLSAICFGR, RCC_PLLI2SCFGR,
                   FLASH_ACR, FLASH_CR, MainPLLConfigured, retval>>

Return(from) == pc = from /\ pc' = Head(stack) /\ stack' = Tail(stack) /\ NoStore

\* the hardware raises the ready bit of an oscillator that is on and completes
\* a clock switch that waited for it
HwReady ==
    /\ \E o \in Oscillators :
        /\ o.on \subseteq RCC_CR
        /\ ~(o.rdy \subseteq RCC_CR)
        /\ RCC_CR' = RCC_CR \cup o.rdy
    /\ RCC_CFGR' = SwitchStatus(RCC_CFGR, RCC_CR')
    /\ UNCHANGED <<RCC_PLLCFGR, RCC_PLLSAICFGR, RCC_PLLI2SCFGR, FLASH_ACR, FLASH_CR,
                   SystemCoreClock, MainPLLConfigured, pc, stack, cmp, scc, aux, retval>>

\* a division by zero in SystemCoreClockUpdate may also trap
DivisionFault ==
    /\ pc \in {"SCC_update", "SI_update"}
    /\ CoreClockDivisionByZero
    /\ pc' = "HardFault"
    /\ NoStore
    /\ UNCHANGED <<stack, cmp, scc, aux>>

-----------------------------------------------------------------------------
(* SystemConfigMainPLL *)

CoreOnPLL == RCC_CFGR \cap RCC_CFGR_SWS = ShiftL(RCC_CFGR_SW_PLL, Pos(RCC_CFGR_SWS))

CallSystemConfigMainPLL(pllconfig, ret) ==
    /\ pc' = IF CoreOnPLL THEN "CMP_hsi_on" ELSE "CMP_pll_off"
    /\ stack' = ret \o stack
    /\ cmp' = [pllconfig |-> pllconfig, pllwascoreclock |-> 0,
               entry |-> [cfgr |-> RCC_CFGR, pllcfgr |-> RCC_PLLCFGR]]

CMP_hsi_on ==
    /\ Step("CMP_hsi_on", "CMP_hsi_wait")
    /\ Store("CR", RCC_CR \cup RCC_CR_HSION)
    /\ UNCHANGED <<cmp, scc, aux>>

CMP_hsi_wait ==
    /\ Step("CMP_hsi_wait", "CMP_sw_hsi")
    /\ WaitReady(RCC_CR_HSIRDY)
    /\ UNCHANGED <<cmp, scc, aux>>

CMP_sw_hsi ==
    /\ Step("CMP_sw_hsi", "CMP_pll_off")
    /\ Store("CFGR", MuxToHSIValue)
    /\ cmp' = [cmp EXCEPT !.pllwascoreclock = 1]
    /\ UNCHANGED <<scc, aux>>

CMP_pll_off ==
    /\ Step("CMP_pll_off", "CMP_src")
    /\ Store("CR", RCC_CR \ RCC_CR_PLLON)
    /\ UNCHANGED <<cmp, scc, aux>>

CMP_src ==
    /\ pc = "CMP_src"
    /\ UNCHANGED <<stack, cmp, scc, aux>>
    /\ IF cmp.pllconfig.source = CLOCKSRC_HSI
       THEN Store("CR", RCC_CR \cup RCC_CR_HSION) /\ pc' = "CMP_src_wait"
       ELSE IF cmp.pllconfig.source = CLOCKSRC_HSE
       THEN Store("CR", RCC_CR \cup RCC_CR_HSEON \cup RCC_CR_HSEBYP) /\ pc' = "CMP_src_wait"
       ELSE NoStore /\ pc' = "CMP_ret"

CMP_src_wait ==
    /\ Step("CMP_src_wait", "CMP_write")
    /\ WaitReady(IF cmp.pllconfig.source = CLOCKSRC_HSI THEN RCC_CR_HSIRDY ELSE RCC_CR_HSERDY)
    /\ UNCHANGED <<cmp, scc, aux>>

CMP_write ==
    /\ Step("CMP_write", "CMP_pll_on")
    /\ Store("PLLCFGR", MainPLLCFGRValue(cmp.pllconfig))
    /\ UNCHANGED <<cmp, scc, aux>>

CMP_pll_on ==
    /\ Step("CMP_pll_on", "CMP_pll_wait")
    /\ Store("CR", RCC_CR \cup RCC_CR_PLLON)
    /\ UNCHANGED <<cmp, scc, aux>>

CMP_pll_wait ==
    /\ pc = "CMP_pll_wait"
    /\ RCC_CR_PLLRDY \subseteq RCC_CR
    /\ MainPLLConfigured' = 1
    /\ pc' = IF cmp.pllwascoreclock = 1 THEN "CMP_sw_pll" ELSE "CMP_ret"
    /\ UNCHANGED <<RCC_CR, RCC_CFGR, RCC_PLLCFGR, RCC_PLLSAICFGR, RCC_PLLI2SCFGR,
                   FLASH_ACR, FLASH_CR, SystemCoreClock, stack, cmp, scc, aux, retval>>

CMP_sw_pll ==
    /\ Step("CMP_sw_pll", "CMP_ret")
    /\ Store("CFGR", MuxBackToPLLValue)
    /\ UNCHANGED <<cmp, scc, aux>>

CMP_ret ==
    /\ Return("CMP_ret")
    /\ cmp' = Idle.cmp
    /\ UNCHANGED <<scc, aux>>

-----------------------------------------------------------------------------
(* SystemSetCoreClock *)

CallSystemSetCoreClock(newsrc, newdiv, ret) ==
    /\ pc' = IF SameSource(newsrc)
             THEN IF newdiv < SystemGetAHBPrescaler THEN "SCC_s_ws" ELSE "SCC_s_hpre"
             ELSE "SCC_c_ws"
    /\ stack' = ret \o stack
    /\ scc' = [newsrc |-> newsrc, newdiv |-> newdiv,
               ppre1 |-> SystemGetAPB1Prescaler, ppre2 |-> SystemGetAPB2Prescaler,
               entry |-> [cfgr |-> RCC_CFGR, clock |-> SystemCoreClock,
                          configured |-> MainPLLConfigured]]

\* the worst-case wait states and the two safe bus dividers, written on the
\* divisor-only path (labels SCC_s_) and on the source-change path (labels
\* SCC_c_); the first safe divider is written once more before the default
\* preset is programmed (label SCC_p_apb1)
SCC_ws ==
    /\ \/ Step("SCC_s_ws", "SCC_s_apb1")
       \/ Step("SCC_c_ws", "SCC_c_apb1")
    /\ Store("ACR", SetFlashWaitStates(MAXWAITSTATES))
    /\ UNCHANGED <<cmp, scc, aux>>

SCC_apb1 ==
    /\ \/ Step("SCC_s_apb1", "SCC_s_apb2")
       \/ Step("SCC_c_apb1", "SCC_c_apb2")
       \/ Step("SCC_p_apb1", "SCC_p_apb2")
    /\ SystemSetAPB1Prescaler(4)
    /\ UNCHANGED <<cmp, scc, aux>>

SCC_apb2 ==
    /\ \/ Step("SCC_s_apb2", "SCC_s_hpre")
       \/ Step("SCC_c_apb2", "SCC_c_hpre")
    /\ SystemSetAPB2Prescaler(2)
    /\ UNCHANGED <<cmp, scc, aux>>

SCC_s_hpre ==
    /\ Step("SCC_s_hpre", "SCC_update")
    /\ Store("CFGR", HPREValue(FindHPRE(scc.newdiv)))
    /\ UNCHANGED <<cmp, scc, aux>>

SCC_c_hpre ==
    /\ pc = "SCC_c_hpre"
    /\ Store("CFGR", HPREValue(FindHPRE(scc.newdiv)))
    /\ pc' = IF scc.newsrc = CLOCKSRC_HSI THEN "SCC_hsi_on"
             ELSE IF scc.newsrc = CLOCKSRC_HSE THEN "SCC_hse_on"
             ELSE IF scc.newsrc = CLOCKSRC_PLL
                  THEN IF NeedsDefaultPLL THEN "SCC_p_apb1" ELSE "SCC_sw_pll"
             ELSE "SCC_update"
    /\ UNCHANGED <<stack, cmp, scc, aux>>

SCC_hsi_on ==
    /\ Step("SCC_hsi_on", "SCC_hsi_wait")
    /\ Store("CR", RCC_CR \cup RCC_CR_HSION)
    /\ UNCHANGED <<cmp, scc, aux>>

SCC_hsi_wait ==
    /\ Step("SCC_hsi_wait", "SCC_sw_hsi")
    /\ WaitReady(RCC_CR_HSIRDY)
    /\ UNCHANGED <<cmp, scc, aux>>

SCC_sw_hsi ==
    /\ Step("SCC_sw_hsi", "SCC_update")
    /\ Store("CFGR", SwitchValue(RCC_CFGR_SW_HSI))
    /\ UNCHANGED <<cmp, scc, aux>>

SCC_hse_on ==
    /\ Step("SCC_hse_on", "SCC_hse_wait")
    /\ Store("CR", RCC_CR \cup RCC_CR_HSEON \cup RCC_CR_HSEBYP)
    /\ UNCHANGED <<cmp, scc, aux>>

SCC_hse_wait ==
    /\ Step("SCC_hse_wait", "SCC_sw_hse")
    /\ WaitReady(RCC_CR_HSERDY)
    /\ UNCHANGED <<cmp, scc, aux>>

SCC_sw_hse ==
    /\ Step("SCC_sw_hse", "SCC_update")
    /\ Store("CFGR", SwitchValue(RCC_CFGR_SW_HSE))
    /\ UNCHANGED <<cmp, scc, aux>>

\* the second safe divider, then the call SystemConfigMainPLL(&ClockConfiguration200MHz)
SCC_p_apb2 ==
    /\ pc = "SCC_p_apb2"
    /\ SystemSetAPB2Prescaler(2)
    /\ CallSystemConfigMainPLL(ClockConfiguration200MHz, <<"SCC_sw_pll">>)
    /\ UNCHANGED <<scc, aux>>

SCC_sw_pll ==
    /\ Step("SCC_sw_pll", "SCC_update")
    /\ Store("CFGR", SwitchValue(RCC_CFGR_SW_PLL))
    /\ UNCHANGED <<cmp, scc, aux>>

SCC_update ==
    /\ Step("SCC_update", "SCC_cfgws")
    /\ SystemCoreClockUpdate
    /\ UNCHANGED <<cmp, scc, aux>>

SCC_cfgws ==
    /\ Step("SCC_cfgws", "SCC_r_apb1")
    /\ Store("ACR", ConfigureFlashWaitStates(SystemCoreClock, VSUPPLY))
    /\ UNCHANGED <<cmp, scc, aux>>

SCC_r_apb1 ==
    /\ Step("SCC_r_apb1", "SCC_r_apb2")
    /\ SystemSetAPB1Prescaler(scc.ppre1)
    /\ UNCHANGED <<cmp, scc, aux>>

SCC_r_apb2 ==
    /\ Step("SCC_r_apb2", "SCC_ret")
    /\ SystemSetAPB2Prescaler(scc.ppre2)
    /\ UNCHANGED <<cmp, scc, aux>>

\* "return 0", on every path
SCC_ret ==
    /\ pc = "SCC_ret"
    /\ pc' = Head(stack)
    /\ stack' = Tail(stack)
    /\ retval' = 0
    /\ scc' = Idle.scc
    /\ UNCHANGED <<RCC_CR, RCC_CFGR, RCC_PLLCFGR, RCC_PLLSAICFGR, RCC_PLLI2SCFGR,
                   FLASH_ACR, FLASH_CR, SystemCoreClock, MainPLLConfigured, cmp, aux>>

-----------------------------------------------------------------------------
(* SystemSetCoreClockFrequency *)

\* the configuration SystemSetCoreClockFrequency builds for the (clamped) frequency
FrequencyConfiguration(freq) ==
    [source |-> CLOCKSRC_HSE, M |-> HSE_FREQ \div 1000000, N |-> 2 * freq,
     P |-> 2, Q |-> 2, R |-> 2]

ClampFrequency(freq) == IF freq >= HCLKMAX THEN HCLKMAX ELSE freq

SCCF_scc ==
    /\ pc = "SCCF_scc"
    /\ CallSystemSetCoreClock(CLOCKSRC_PLL, 1, <<"SCCF_ret">>)
    /\ NoStore
    /\ UNCHANGED <<cmp, aux>>

SCCF_ret ==
    /\ Return("SCCF_ret")
    /\ aux' = Idle.aux
    /\ UNCHANGED <<cmp, scc>>

-----------------------------------------------------------------------------
(* SystemInit: the part that sets the clock and the flash interface *)

SI_cr ==
    /\ Step("SI_cr", "SI_cfgr")
    /\ Store("CR", Bits(131))
    /\ UNCHANGED <<cmp, scc, aux>>

SI_cfgr ==
    /\ Step("SI_cfgr", "SI_pllcfgr")
    /\ Store("CFGR", {})
    /\ UNCHANGED <<cmp, scc, aux>>

SI_pllcfgr ==
    /\ Step("SI_pllcfgr", "SI_hse_on")
    /\ Store("PLLCFGR", Bits(603992080))
    /\ UNCHANGED <<cmp, scc, aux>>

SI_hse_on ==
    /\ Step("SI_hse_on", "SI_hse_wait")
    /\ Store("CR", RCC_CR \cup RCC_CR_HSEON \cup RCC_CR_HSEBYP)
    /\ UNCHANGED <<cmp, scc, aux>>

SI_hse_wait ==
    /\ Step("SI_hse_wait", "SI_ahb")
    /\ WaitReady(RCC_CR_HSERDY)
    /\ UNCHANGED <<cmp, scc, aux>>

SI_ahb ==
    /\ Step("SI_ahb", "SI_apb1")
    /\ SystemSetAHBPrescaler(1)
    /\ UNCHANGED <<cmp, scc, aux>>

SI_apb1 ==
    /\ Step("SI_apb1", "SI_apb2")
    /\ SystemSetAPB1Prescaler(4)
    /\ UNCHANGED <<cmp, scc, aux>>

SI_apb2 ==
    /\ Step("SI_apb2", "SI_update")
    /\ SystemSetAPB2Prescaler(2)
    /\ UNCHANGED <<cmp, scc, aux>>

SI_update ==
    /\ Step("SI_update", "SI_art")
    /\ SystemCoreClockUpdate
    /\ UNCHANGED <<cmp, scc, aux>>

\* the four read-modify-writes of FLASH->ACR that restart the ART accelerator
SI_art ==
    /\ Step("SI_art", "SI_ret")
    /\ Store("ACR", (((FLASH_ACR \ FLASH_ACR_ARTEN) \cup FLASH_ACR_ARTRST) \cup FLASH_ACR_ARTEN)
                    \cup FLASH_ACR_PRFTEN)
    /\ UNCHANGED <<cmp, scc, aux>>

SI_ret ==
    /\ Return("SI_ret")
    /\ UNCHANGED <<cmp, scc, aux>>

-----------------------------------------------------------------------------
(* SystemConfigPLLSAI and SystemConfigPLLI2S *)

SAI_off ==
    /\ Step("SAI_off", "SAI_write")
    /\ Store("CR", RCC_CR \ RCC_CR_PLLSAION)
    /\ UNCHANGED <<cmp, scc, aux>>

SAI_write ==
    /\ Step("SAI_write", "SAI_on")
    /\ Store("PLLSAICFGR", AuxPLLCFGRValue(RCC_PLLSAICFGR, aux.pllconfig))
    /\ UNCHANGED <<cmp, scc, aux>>

SAI_on ==
    /\ Step("SAI_on", "SAI_wait")
    /\ Store("CR", RCC_CR \cup RCC_CR_PLLSAION)
    /\ UNCHANGED <<cmp, scc, aux>>

\* the busy-wait of SystemConfigPLLSAI or SystemConfigPLLI2S
AuxPLL_wait ==
    /\ \/ Step("SAI_wait", "SAI_ret") /\ WaitReady(RCC_CR_PLLSAIRDY)
       \/ Step("I2S_wait", "I2S_ret") /\ WaitReady(RCC_CR_PLLI2SRDY)
    /\ UNCHANGED <<cmp, scc, aux>>

\* the return of SystemConfigPLLSAI or SystemConfigPLLI2S
AuxPLL_ret ==
    /\ \/ Return("SAI_ret")
       \/ Return("I2S_ret")
    /\ aux' = Idle.aux
    /\ UNCHANGED <<cmp, scc>>

I2S_off ==
    /\ Step("I2S_off", "I2S_write")
    /\ Store("CR", RCC_CR \ RCC_CR_PLLI2SON)
    /\ UNCHANGED <<cmp, scc, aux>>

I2S_write ==
    /\ Step("I2S_write", "I2S_on")
    /\ Store("PLLI2SCFGR", AuxPLLCFGRValue(RCC_PLLI2SCFGR, aux.pllconfig))
    /\ UNCHANGED <<cmp, scc, aux>>

I2S_on ==
    /\ Step("I2S_on", "I2S_wait")
    /\ Store("CR", RCC_CR \cup RCC_CR_PLLI2SON)
    /\ UNCHANGED <<cmp, scc, aux>>

-----------------------------------------------------------------------------
(* The prescaler functions called on their own *)

\* the return of SystemSetAHBPrescaler, SystemSetAPB1Prescaler or SystemSetAPB2Prescaler
Prescaler_ret ==
    /\ pc \in {"AHB_ret", "APB1_ret", "APB2_ret"}
    /\ pc' = Head(stack)
    /\ stack' = Tail(stack)
    /\ aux' = Idle.aux
    /\ NoStore
    /\ UNCHANGED <<cmp, scc>>

-----------------------------------------------------------------------------
(* The callers: the reset handler, then the application *)

\* the reset handler calls SystemInit and then main
Startup ==
    /\ pc = "reset"
    /\ pc' = "SI_cr"
    /\ stack' = <<"main">>
    /\ NoStore
    /\ UNCHANGED <<cmp, scc, aux>>

MainConfigMainPLL ==
    /\ pc = "main"
    /\ \E pllconfig \in MainPLLInputs : CallSystemConfigMainPLL(pllconfig, <<"main">>)
    /\ NoStore
    /\ UNCHANGED <<scc, aux>>

MainSetCoreClock ==
    /\ pc = "main"
    /\ \E newsrc \in RequestedSources, newdiv \in 1..MaxDiv :
           CallSystemSetCoreClock(newsrc, newdiv, <<"main">>)
    /\ NoStore
    /\ UNCHANGED <<cmp, aux>>

\* SystemSetCoreClockFrequency up to its call of SystemConfigMainPLL
MainSetCoreClockFrequency ==
    /\ pc = "main"
    /\ \E freq \in {168, 216000000} :
        /\ aux' = [Idle.aux EXCEPT !.freq = ClampFrequency(freq)]
        /\ CallSystemConfigMainPLL(FrequencyConfiguration(ClampFrequency(freq)),
                                   <<"SCCF_scc", "main">>)
    /\ NoStore
    /\ UNCHANGED scc

MainSystemInit ==
    /\ pc = "main"
    /\ pc' = "SI_cr"
    /\ stack' = <<"main">> \o stack
    /\ NoStore
    /\ UNCHANGED <<cmp, scc, aux>>

MainSetAHBPrescaler ==
    /\ pc = "main"
    /\ \E div \in 1..MaxDiv :
        /\ SystemSetAHBPrescaler(div)
        /\ aux' = [Idle.aux EXCEPT !.div = div]
    /\ pc' = "AHB_ret"
    /\ stack' = <<"main">> \o stack
    /\ UNCHANGED <<cmp, scc>>

MainSetAPB1Prescaler ==
    /\ pc = "main"
    /\ \E div \in APBDivisors :
        /\ SystemSetAPB1Prescaler(div)
        /\ aux' = [Idle.aux EXCEPT !.div = div]
    /\ pc' = "APB1_ret"
    /\ stack' = <<"main">> \o stack
    /\ UNCHANGED <<cmp, scc>>

MainSetAPB2Prescaler ==
    /\ pc = "main"
    /\ \E div \in APBDivisors :
        /\ SystemSetAPB2Prescaler(div)
        /\ aux' = [Idle.aux EXCEPT !.div = div]
    /\ pc' = "APB2_ret"
    /\ stack' = <<"main">> \o stack
    /\ UNCHANGED <<cmp, scc>>

MainConfigPLLSAI ==
    /\ pc = "main"
    /\ pc' = IF AuxPLLRefused THEN "SAI_ret" ELSE "SAI_off"
    /\ stack' = <<"main">> \o stack
    /\ \E pllconfig \in {PLLSAIConfiguration_48MHz} : aux' = [Idle.aux EXCEPT !.pllconfig = pllconfig]
    /\ NoStore
    /\ UNCHANGED <<cmp, scc>>

MainConfigPLLI2S ==
    /\ pc = "main"
    /\ pc' = IF AuxPLLRefused THEN "I2S_ret" ELSE "I2S_off"
    /\ stack' = <<"main">> \o stack
    /\ \E pllconfig \in {PLLSAIConfiguration_48MHz} : aux' = [Idle.aux EXCEPT !.pllconfig = pllconfig]
    /\ NoStore
    /\ UNCHANGED <<cmp, scc>>

-----------------------------------------------------------------------------
(* Specifications *)

\* the reset handler, then any sequence of the three clock operations
NextCore ==
    \/ Startup
    \/ SI_cr \/ SI_cfgr \/ SI_pllcfgr \/ SI_hse_on \/ SI_hse_wait \/ SI_ahb \/ SI_apb1
    \/ SI_apb2 \/ SI_update \/ SI_art \/ SI_ret
    \/ MainConfigMainPLL \/ MainSetCoreClock \/ MainSetCoreClockFrequency
    \/ CMP_hsi_on \/ CMP_hsi_wait \/ CMP_sw_hsi \/ CMP_sw_pll
    \/ CMP_pll_off \/ CMP_src \/ CMP_src_wait \/ CMP_write \/ CMP_pll_on
    \/ CMP_pll_wait \/ CMP_ret
    \/ SCC_ws \/ SCC_apb1 \/ SCC_apb2 \/ SCC_s_hpre
    \/ SCC_c_hpre
    \/ SCC_hsi_on \/ SCC_hsi_wait \/ SCC_sw_hsi
    \/ SCC_hse_on \/ SCC_hse_wait \/ SCC_sw_hse
    \/ SCC_p_apb2 \/ SCC_sw_pll
    \/ SCC_update \/ SCC_cfgws \/ SCC_r_apb1 \/ SCC_r_apb2 \/ SCC_ret
    \/ SCCF_scc \/ SCCF_ret
    \/ HwReady \/ DivisionFault

SpecCore == Init /\ [][NextCore]_vars

\* the same with progress: the processor executes the next statement whenever
\* there is one, and an oscillator or PLL that is on raises its ready bit
SpecCoreFair == SpecCore /\ WF_vars(NextCore) /\ WF_vars(HwReady)

\* the reset handler, then any sequence of the operations that change the clocks
Next ==
    \/ NextCore
    \/ MainSystemInit \/ MainSetAHBPrescaler \/ MainSetAPB1Prescaler \/ MainSetAPB2Prescaler
    \/ Prescaler_ret

Spec == Init /\ [][Next]_vars

\* the reset handler, then any sequence of configurations of the three PLL
\* units, the core staying on HSI
NextAux ==
    \/ Startup \/ MainSystemInit
    \/ SI_cr \/ SI_cfgr \/ SI_pllcfgr \/ SI_hse_on \/ SI_hse_wait \/ SI_ahb \/ SI_apb1
    \/ SI_apb2 \/ SI_update \/ SI_art \/ SI_ret
    \/ MainConfigMainPLL
    \/ CMP_pll_off \/ CMP_src \/ CMP_src_wait \/ CMP_write \/ CMP_pll_on
    \/ CMP_pll_wait \/ CMP_ret
    \/ MainConfigPLLSAI \/ MainConfigPLLI2S
    \/ SAI_off \/ SAI_write \/ SAI_on \/ AuxPLL_wait \/ AuxPLL_ret
    \/ I2S_off \/ I2S_write \/ I2S_on
    \/ HwReady

SpecAux == Init /\ [][NextAux]_vars

-----------------------------------------------------------------------------
(* One function called once on an argument in the state after reset: the
   functions that only compute, and the AHB and APB1 prescaler writes *)

\* the divisors asked of FindHPRE and of SystemFindNearestPower2 are 0..MaxDivisor
MaxDivisor == 600

\* the frequencies looked up in the table are 0..MaxFrequency (MHz)
MaxFrequency == 230

\* the supply voltages looked up (mV): the limits of the rows and values between
Voltages == {1700, 1799, 1800, 2099, 2100, 2399, 2400, 2699, 2700, 3300, 3600}

\* the configurations checked: each field at, inside and outside its limits
CheckedConfigurations ==
    [source : {CLOCKSRC_HSE}, M : {1, 2, 63, 64}, N : {49, 50, 432, 433},
     P : {1, 2, 4, 6, 8, 9}, Q : {1, 2, 15, 16}, R : {0, 1, 2, 7, 8}]

\* the configurations whose frequencies are calculated
CalculatedConfigurations ==
    {MainPLLConfiguration_200MHz, MainPLLConfiguration_216MHz}
        \cup [source : {CLOCKSRC_HSI, CLOCKSRC_HSE, CLOCKSRC_PLL}, M : {8, 12, 25},
              N : {50, 336, 432}, P : {0, 2, 4, 8}, Q : {0, 2, 7}, R : {0, 2}]

\* the calls: the function and its arguments
Calls ==
    [fn : {"FindHPRE", "SystemFindNearestPower2Exp", "SystemFindLargestPower2",
           "SystemFindLargestPower2Exp"},
     divisor : 0..MaxDivisor]
        \cup [fn : {"SystemFindNearestPower2"},
              divisor : (0..MaxDivisor) \cup
                  {d \in UNION {{2^i + j, 3 * 2^i + j} : i \in 0..19, j \in -2..2} :
                      d >= 0 /\ d <= 2^19}]
        \cup [fn : {"SystemSetAHBPrescaler", "SystemSetAPB1Prescaler"}, divisor : 1..MaxDivisor]
        \cup [fn : {"FindFlashWaitStates"}, freq : 0..MaxFrequency, voltage : Voltages]
        \cup [fn : {"SystemCheckPLLConfiguration"}, pllconfig : CheckedConfigurations]
        \cup [fn : {"CalculateMainPLLOutFrequency", "SystemCalcPLLFrequencies"},
              pllconfig : CalculatedConfigurations]

InitCalc ==
    /\ RCC_CR = Bits(131)
    /\ RCC_CFGR = {}
    /\ RCC_PLLCFGR = Bits(603992080)
    /\ RCC_PLLSAICFGR = Bits(603992064)
    /\ RCC_PLLI2SCFGR = Bits(603992064)
    /\ FLASH_ACR = {}
    /\ FLASH_CR = {31}
    /\ SystemCoreClock = HSI_FREQ
    /\ MainPLLConfigured = 0
    /\ pc = "main"
    /\ stack = <<>>
    /\ cmp = Idle.cmp
    /\ scc = Idle.scc
    /\ aux \in Calls
    /\ retval = 0

\* the call of fn returns: no register and no global is written
Computes(fn) ==
    /\ pc = "main"
    /\ aux.fn = fn
    /\ pc' = "done"
    /\ UNCHANGED <<RCC_CR, RCC_CFGR, RCC_PLLCFGR, RCC_PLLSAICFGR, RCC_PLLI2SCFGR, FLASH_ACR,
                   FLASH_CR, SystemCoreClock, MainPLLConfigured, stack, cmp, scc, aux>>

CallFindHPRE ==
    /\ Computes("FindHPRE")
    /\ retval' = FindHPRE(aux.divisor)

CallSystemFindNearestPower2 ==
    /\ Computes("SystemFindNearestPower2")
    /\ retval' = SystemFindNearestPower2(aux.divisor)

CallSystemFindNearestPower2Exp ==
    /\ Computes("SystemFindNearestPower2Exp")
    /\ retval' = SystemFindNearestPower2Exp(aux.divisor)

CallSystemFindLargestPower2 ==
    /\ Computes("SystemFindLargestPower2")
    /\ retval' = SystemFindLargestPower2(aux.divisor)

CallSystemFindLargestPower2Exp ==
    /\ Computes("SystemFindLargestPower2Exp")
    /\ retval' = SystemFindLargestPower2Exp(aux.divisor)

CallFindFlashWaitStates ==
    /\ Computes("FindFlashWaitStates")
    /\ retval' = FindFlashWaitStates(aux.freq, aux.voltage)

CallSystemCheckPLLConfiguration ==
    /\ Computes("SystemCheckPLLConfiguration")
    /\ retval' = SystemCheckPLLConfiguration(aux.pllconfig)

\* a division by zero gives any of the results it can give, or traps
CallCalculateMainPLLOutFrequency ==
    /\ pc = "main"
    /\ aux.fn = "CalculateMainPLLOutFrequency"
    /\ IF PLLDivisionByZero(aux.pllconfig)
       THEN \/ pc' = "done" /\ retval' \in DivisionByZeroResults
            \/ pc' = "HardFault" /\ UNCHANGED retval
       ELSE pc' = "done" /\ retval' = CalculateMainPLLOutFrequency(aux.pllconfig)
    /\ UNCHANGED <<RCC_CR, RCC_CFGR, RCC_PLLCFGR, RCC_PLLSAICFGR, RCC_PLLI2SCFGR, FLASH_ACR,
                   FLASH_CR, SystemCoreClock, MainPLLConfigured, stack, cmp, scc, aux>>

\* the value returned and the struct of the caller after the call
CallSystemCalcPLLFrequencies ==
    /\ Computes("SystemCalcPLLFrequencies")
    /\ retval' = IF aux.pllconfig.source \in {CLOCKSRC_HSI, CLOCKSRC_HSE}
                 THEN [value   |-> SystemCalcPLLFrequencies(aux.pllconfig).poutfreq,
                       pllfreq |-> SystemCalcPLLFrequencies(aux.pllconfig)]
                 ELSE [value |-> 0,
                       pllfreq |-> [infreq |-> 0, pllinfreq |-> 0, vcofreq |-> 0,
                                    poutfreq |-> 0, qoutfreq |-> 0, routfreq |-> 0]]

\* the two prescaler functions called in the state after reset
CallSystemSetAHBPrescaler ==
    /\ pc = "main"
    /\ aux.fn = "SystemSetAHBPrescaler"
    /\ pc' = "done"
    /\ SystemSetAHBPrescaler(aux.divisor)
    /\ UNCHANGED <<stack, cmp, scc, aux>>

CallSystemSetAPB1Prescaler ==
    /\ pc = "main"
    /\ aux.fn = "SystemSetAPB1Prescaler"
    /\ pc' = "done"
    /\ SystemSetAPB1Prescaler(aux.divisor)
    /\ UNCHANGED <<stack, cmp, scc, aux>>

NextCalc ==
    \/ CallFindHPRE
    \/ CallSystemSetAHBPrescaler
    \/ CallSystemSetAPB1Prescaler
    \/ CallSystemFindNearestPower2
    \/ CallSystemFindNearestPower2Exp
    \/ CallSystemFindLargestPower2
    \/ CallSystemFindLargestPower2Exp
    \/ CallFindFlashWaitStates
    \/ CallSystemCheckPLLConfiguration
    \/ CallCalculateMainPLLOutFrequency
    \/ CallSystemCalcPLLFrequencies

SpecCalc == InitCalc /\ [][NextCalc]_vars

-----------------------------------------------------------------------------
(* What the hardware does with the registers *)

\* the frequency of SYSCLK: the source the status field SWS reports, the PLL
\* output being VCO/P with P decoded as SystemGetPLLConfiguration decodes it
LiveSYSCLKFrequency ==
    LET src == RCC_CFGR \cap RCC_CFGR_SWS
    IN  IF src = ShiftL(RCC_CFGR_SW_HSE, Pos(RCC_CFGR_SWS)) THEN HSE_FREQ
        ELSE IF src = ShiftL(RCC_CFGR_SW_PLL, Pos(RCC_CFGR_SWS))
             THEN SystemCalcPLLFrequencies(SystemGetPLLConfiguration).poutfreq
        ELSE HSI_FREQ

\* the wait states the table asks for at a frequency in Hz, at VSUPPLY
TableWaitStates(hz) == FindFlashWaitStates((hz + 999999) \div 1000000, VSUPPLY)

LatencyField == Field(FLASH_ACR, FLASH_ACR_LATENCY)

\* the state SystemInit leaves: HSI 16 MHz, AHB /1, APB1 /4, APB2 /2, PLL never configured
ResetDefaults(entry) ==
    /\ entry.cfgr \cap (RCC_CFGR_SW \cup RCC_CFGR_SWS) = {}
    /\ hpre_table[Field(entry.cfgr, RCC_CFGR_HPRE) + 1] = 1
    /\ ppre_table[Field(entry.cfgr, RCC_CFGR_PPRE1) + 1] = 4
    /\ ppre_table[Field(entry.cfgr, RCC_CFGR_PPRE2) + 1] = 2
    /\ entry.clock = HSI_FREQ
    /\ entry.configured = 0

\* the SystemSetCoreClock in progress took a path that writes MAXWAITSTATES first
WorstCaseWritten ==
    \/ scc.newsrc # Field(scc.entry.cfgr, RCC_CFGR_SW)
    \/ scc.newdiv < hpre_table[Field(scc.entry.cfgr, RCC_CFGR_HPRE) + 1]

-----------------------------------------------------------------------------
(* Properties *)

\* C1: when SystemConfigMainPLL found the PLL clocking the core, the SW field
\* of CFGR selects HSI at the point where the PLL is disabled and at the point
\* where PLLCFGR is written.
C1_MuxOnHSIWhileReprogramming ==
    (pc \in {"CMP_pll_off", "CMP_src", "CMP_src_wait", "CMP_write"} /\ cmp.pllwascoreclock = 1)
        => RCC_CFGR \cap RCC_CFGR_SW = RCC_CFGR_SW_HSI

\* C2: in every state reached from reset by SystemConfigMainPLL,
\* SystemSetCoreClock and SystemSetCoreClockFrequency, inside the calls too,
\* the LATENCY field is at least the wait states the table asks for at the
\* frequency the core runs at, at 3300 mV.
C2_LatencyCoversLiveFrequency ==
    pc \notin {"reset", "HardFault"} => LatencyField >= TableWaitStates(LiveSYSCLKFrequency \div SystemGetAHBPrescaler)

\* C3: when SystemSetCoreClock returns, the core clock divided by the APB1
\* prescaler is at most 54 MHz and divided by the APB2 prescaler at most 108 MHz.
C3_APBWithinCeilings ==
    (pc = "SCC_ret" /\ ~CoreClockDivisionByZero)
        => /\ SystemGetCoreClock \div SystemGetAPB1Prescaler <= 54000000
           /\ SystemGetCoreClock \div SystemGetAPB2Prescaler <= 108000000

\* C4: in SystemSetCoreClock, on a source change or a smaller divisor on the
\* same source, at the write of the AHB prescaler and at the write of the mux
\* the LATENCY field holds MAXWAITSTATES and the APB dividers are the safe
\* ones (APB1 /4, APB2 /2); the final wait states are written after them.
C4_WorstCaseBeforeFrequencyRise ==
    (/\ pc \in {"SCC_s_hpre", "SCC_c_hpre", "SCC_sw_hsi", "SCC_sw_hse", "SCC_sw_pll"}
     /\ WorstCaseWritten)
        => /\ LatencyField = MAXWAITSTATES
           /\ SystemGetAPB1Prescaler = 4
           /\ SystemGetAPB2Prescaler = 2

\* C5: when SystemSetCoreClock returns, the LATENCY field holds the wait
\* states of the table for the resulting core frequency at VSUPPLY (for
\* HSI 16 MHz to the 200 MHz preset with divisor 1: the entry of 200 MHz).
C5_FinalLatencyFromTable ==
    (pc = "SCC_ret" /\ ~CoreClockDivisionByZero)
        => LatencyField = TableWaitStates(SystemGetCoreClock)

\* C6: from the reset defaults, SystemSetCoreClock(CLOCKSRC_PLL, 1) returns
\* with the mux on the PLL, SystemCoreClock = 200,000,000, the AHB prescaler
\* field 0, APB1 /4 and APB2 /2.
C6_DefaultsToPLL200 ==
    (pc = "SCC_ret" /\ scc.newsrc = CLOCKSRC_PLL /\ scc.newdiv = 1 /\ ResetDefaults(scc.entry))
        => /\ RCC_CFGR \cap RCC_CFGR_SW = RCC_CFGR_SW_PLL
           /\ RCC_CFGR \cap RCC_CFGR_SWS = ShiftL(RCC_CFGR_SW_PLL, Pos(RCC_CFGR_SWS))
           /\ SystemCoreClock = 200000000
           /\ Field(RCC_CFGR, RCC_CFGR_HPRE) = 0
           /\ SystemGetAPB1Prescaler = 4
           /\ SystemGetAPB2Prescaler = 2

C6_Witness ==
    /\ pc = "SCC_ret" /\ scc.newsrc = CLOCKSRC_PLL /\ scc.newdiv = 1
    /\ ResetDefaults(scc.entry)
    /\ SystemCoreClock = 200000000

\* C7: when SystemSetCoreClock, SystemSetCoreClockFrequency,
\* SystemConfigMainPLL, SystemSetAHBPrescaler or SystemInit returns, the
\* cached SystemCoreClock equals what SystemGetCoreClock computes from the
\* registers.
C7_CacheMatchesRegisters ==
    (pc \in {"SCC_ret", "SCCF_ret", "CMP_ret", "AHB_ret", "SI_ret"} /\ ~CoreClockDivisionByZero)
        => SystemCoreClock = SystemGetCoreClock

\* C8: when the lookup of the wait states fails for the frequency reached in
\* a SystemSetCoreClock that wrote the worst case (source change, or smaller
\* divisor on the same source), the LATENCY field still holds MAXWAITSTATES
\* once ConfigureFlashWaitStates is over.
C8_FailedLookupKeepsWorstCase ==
    (/\ pc = "SCC_r_apb1"
     /\ WorstCaseWritten
     /\ FindFlashWaitStates(SystemCoreClock, VSUPPLY) = -1)
        => LatencyField = MAXWAITSTATES

\* C9: as long as no SystemConfigMainPLL has completed (the flag
\* MainPLLConfigured is 0), no step, those of SystemConfigPLLSAI and
\* SystemConfigPLLI2S included, changes PLLSAICFGR, PLLI2SCFGR or the
\* PLLSAION and PLLI2SON bits of CR.
C9_AuxPLLUntouchedBeforeMainPLL ==
    [][MainPLLConfigured = 0 =>
          /\ RCC_PLLSAICFGR' = RCC_PLLSAICFGR
          /\ RCC_PLLI2SCFGR' = RCC_PLLI2SCFGR
          /\ RCC_CR' \cap (RCC_CR_PLLSAION \cup RCC_CR_PLLI2SON)
                = RCC_CR \cap (RCC_CR_PLLSAION \cup RCC_CR_PLLI2SON)]_vars

C9_Witness ==
    /\ pc \in {"SAI_ret", "I2S_ret"}
    /\ MainPLLConfigured = 0
    /\ aux.pllconfig = PLLSAIConfiguration_48MHz

\* C10: the SW field of CFGR selects the PLL only when MainPLLConfigured is
\* set, inside SystemSetCoreClock too; when SystemSetCoreClock was entered
\* with the flag clear, the default 200 MHz preset is in PLLCFGR and the PLL
\* is ready at the write of the mux.
C10_MuxOnPLLOnlyIfConfigured ==
    /\ RCC_CFGR \cap RCC_CFGR_SW = RCC_CFGR_SW_PLL => MainPLLConfigured = 1
    /\ (pc = "SCC_sw_pll" /\ scc.entry.configured = 0)
          => /\ MainPLLConfigured = 1
             /\ RCC_CR_PLLRDY \subseteq RCC_CR
             /\ RCC_PLLCFGR = MainPLLCFGRValue(ClockConfiguration200MHz)

C10_Witness ==
    /\ pc = "SCC_update"
    /\ scc.entry.configured = 0
    /\ RCC_CFGR \cap RCC_CFGR_SW = RCC_CFGR_SW_PLL

\* C11: for every divisor n in 1..600, FindHPRE(n) is a 4-bit code whose value
\* in hpre_table is the smallest of the hardware divisors 1, 2, 4, 8, 16, 64,
\* 128, 256, 512 that is at least n (512 from 512 on); n <= 1 gives code 0
\* and n >= 512 gives code 15.
C11_HPREIsSmallestDivisorAtLeastN ==
    (pc = "done" /\ aux.fn = "FindHPRE" /\ aux.divisor >= 1)
        => /\ retval \in 0..15
           /\ LET hw == {1, 2, 4, 8, 16, 64, 128, 256, 512}
                  n  == IF aux.divisor >= 512 THEN 512 ELSE aux.divisor
              IN  /\ hpre_table[retval + 1] \in hw
                  /\ hpre_table[retval + 1] >= n
                  /\ \A d \in hw : d >= n => hpre_table[retval + 1] <= d
           /\ aux.divisor <= 1 => retval = 0
           /\ aux.divisor >= 512 => retval = 15

\* C12: a call SystemSetAPB2Prescaler(div) leaves CFGR as it is exactly when
\* SystemCoreClock/div is above 108 MHz, and a call SystemSetAPB1Prescaler(div)
\* exactly when SystemCoreClock/div is above 54 MHz; otherwise the prescaler
\* field holds div after the call.  SystemCoreClock is the cached value.
C12_APBWriteSkippedExactlyAboveCeiling ==
    [][/\ (pc = "main" /\ pc' = "APB2_ret")
            => IF SystemCoreClock \div aux'.div > 108000000
               THEN RCC_CFGR' = RCC_CFGR
               ELSE ppre_table[Field(RCC_CFGR', RCC_CFGR_PPRE2) + 1] = aux'.div
       /\ (pc = "main" /\ pc' = "APB1_ret")
            => IF SystemCoreClock \div aux'.div > 54000000
               THEN RCC_CFGR' = RCC_CFGR
               ELSE ppre_table[Field(RCC_CFGR', RCC_CFGR_PPRE1) + 1] = aux'.div]_vars

\* C13: when SystemSetCoreClock returns, each APB prescaler is the one saved
\* at entry exactly when the saved one keeps its bus within the ceiling at the
\* new core frequency (APB1 54 MHz, APB2 108 MHz); otherwise the bus is at the
\* safe override (APB1 /4, APB2 /2).
C13_APBRestoredWithinCeiling ==
    (pc = "SCC_ret" /\ ~CoreClockDivisionByZero)
        => /\ SystemGetAPB1Prescaler =
                IF SystemCoreClock \div scc.ppre1 <= 54000000 THEN scc.ppre1 ELSE 4
           /\ SystemGetAPB2Prescaler =
                IF SystemCoreClock \div scc.ppre2 <= 108000000 THEN scc.ppre2 ELSE 2

\* C14: FindFlashWaitStates(freq, voltage), freq in MHz, takes the first row
\* of the table whose minimum voltage is at or below voltage and returns the
\* smallest index j of that row whose maximum frequency is at or above freq;
\* it returns -1 when no row matches the voltage (below 1800 mV) or when freq
\* is above every non-zero entry of the row.
C14_FirstRowSmallestColumn ==
    (pc = "done" /\ aux.fn = "FindFlashWaitStates")
        => LET rows == {i \in 1..4 : flashwaitstates_tab[i].vmin <= aux.voltage}
           IN  IF rows = {} THEN retval = -1 /\ aux.voltage < 1800
               ELSE LET row  == flashwaitstates_tab[CHOOSE i \in rows : \A k \in rows : i <= k]
                        cols == {j \in 0..10 : row.freqmax[j + 1] # 0
                                               /\ row.freqmax[j + 1] >= aux.freq}
                    IN  IF cols = {} THEN retval = -1
                        ELSE retval \in cols /\ \A j \in cols : retval <= j

\* a lookup at a limit of the table: 216 MHz at 2400 mV gives 8 wait states
C14_Witness ==
    /\ pc = "done" /\ aux.fn = "FindFlashWaitStates"
    /\ aux.freq = 216 /\ aux.voltage = 2400 /\ retval = 8

\* C15: over the successful results of FindFlashWaitStates, for a fixed
\* voltage the result does not decrease as the frequency increases, and for a
\* fixed frequency it does not increase as the voltage increases.
C15_WaitStatesMonotone ==
    (pc = "done" /\ aux.fn = "FindFlashWaitStates" /\ retval # -1)
        => /\ \A f \in aux.freq..MaxFrequency :
                FindFlashWaitStates(f, aux.voltage) # -1
                    => retval <= FindFlashWaitStates(f, aux.voltage)
           /\ \A v \in Voltages :
                (v >= aux.voltage /\ FindFlashWaitStates(aux.freq, v) # -1)
                    => FindFlashWaitStates(aux.freq, v) <= retval

\* a successful lookup that a higher voltage and a higher frequency change
C15_Witness ==
    /\ pc = "done" /\ aux.fn = "FindFlashWaitStates"
    /\ aux.freq = 100 /\ aux.voltage = 2100 /\ retval = 4
    /\ FindFlashWaitStates(100, 3300) = 3
    /\ FindFlashWaitStates(200, 2100) = 9

\* C16: SystemCheckPLLConfiguration returns 0 exactly for the configurations
\* with M in 2..63, N in 50..432, P in {2, 4, 6, 8}, Q in 2..15 and R either 0
\* or in 2..7; a configuration with a field outside its range, N above 432
\* included, gets a non-zero result.
C16_CheckAcceptsExactlyTheRanges ==
    (pc = "done" /\ aux.fn = "SystemCheckPLLConfiguration")
        => (retval = 0 <=> /\ aux.pllconfig.M \in 2..63
                           /\ aux.pllconfig.N \in 50..432
                           /\ aux.pllconfig.P \in {2, 4, 6, 8}
                           /\ aux.pllconfig.Q \in 2..15
                           /\ aux.pllconfig.R \in {0} \cup (2..7))

\* C17: when exactly one of M, N, P, Q, R is out of range, the code
\* SystemCheckPLLConfiguration returns is not 0 and no configuration whose
\* only offending field is another one gets the same code.
C17_OneCodePerField ==
    LET Offending(c) == {f \in {"M", "N", "P", "Q", "R"} :
                            \/ f = "M" /\ c.M \notin 2..63
                            \/ f = "N" /\ c.N \notin 50..432
                            \/ f = "P" /\ c.P \notin {2, 4, 6, 8}
                            \/ f = "Q" /\ c.Q \notin 2..15
                            \/ f = "R" /\ c.R \notin {0} \cup (2..7)}
    IN  (/\ pc = "done" /\ aux.fn = "SystemCheckPLLConfiguration"
         /\ Cardinality(Offending(aux.pllconfig)) = 1)
            => /\ retval # 0
               /\ \A c \in CheckedConfigurations :
                    (/\ Cardinality(Offending(c)) = 1
                     /\ Offending(c) # Offending(aux.pllconfig))
                        => SystemCheckPLLConfiguration(c) # retval

C19_AllOutputsFromVCO ==
    (/\ aux.fn = "SystemCalcPLLFrequencies"
     /\ aux.pllconfig.source \in {CLOCKSRC_HSI, CLOCKSRC_HSE})
        => /\ pc \in {"main", "done"}
           /\ pc = "done" =>
                LET c   == aux.pllconfig
                    f   == retval.pllfreq
                    mhz == IF c.source = CLOCKSRC_HSI THEN 16 ELSE 25
                    x   == mhz * c.N
                    d2  == ((x % c.M) * 1000) \div c.M
                    r2  == ((x % c.M) * 1000) % c.M
                    d3  == (r2 * 1000) \div c.M
                    vco == (x \div c.M) * 1000000 + d2 * 1000 + d3
                IN  /\ f.infreq = mhz * 1000000
                    /\ f.pllinfreq = (mhz * 1000000) \div c.M
                    /\ f.vcofreq = vco
                    /\ f.poutfreq = IF c.P = 0 THEN 0 ELSE vco \div c.P
                    /\ f.qoutfreq = IF c.Q = 0 THEN 0 ELSE vco \div c.Q
                    /\ f.routfreq = IF c.R = 0 THEN 0 ELSE vco \div c.R
                    /\ retval.value = f.poutfreq
                    /\ \A r \in IF PLLDivisionByZero(c) THEN DivisionByZeroResults
                                 ELSE {CalculateMainPLLOutFrequency(c)} : r = retval.value

\* C20: for every d from 0 up to 2^19, SystemFindNearestPower2(d) is the power
\* of two among 2^0..2^19 with the smallest absolute difference to d, the
\* smaller one when two are equally near; it is 1 for d = 0 and for d = 1.
C20_NearestPowerOfTwo ==
    (pc = "done" /\ aux.fn = "SystemFindNearestPower2")
        => /\ \E i \in 0..19 :
                /\ retval = 2^i
                /\ \A j \in 0..19 :
                     \/ iabs(aux.divisor - 2^i) < iabs(aux.divisor - 2^j)
                     \/ iabs(aux.divisor - 2^i) = iabs(aux.divisor - 2^j) /\ i <= j
           /\ aux.divisor \in {0, 1} => retval = 1

\* a divisor in the middle of two powers of two: 384 gives 256, not 512
C20_Witness ==
    /\ pc = "done" /\ aux.fn = "SystemFindNearestPower2"
    /\ aux.divisor = 384
    /\ retval = 256

\* C21: for every d in 0..600, SystemFindLargestPower2(d) is not below d and
\* is the smallest power of two that is at least d; d = 0 and d = 1 give 1.
C21_SmallestPowerOfTwoAtLeast ==
    (pc = "done" /\ aux.fn = "SystemFindLargestPower2")
        => /\ retval >= aux.divisor
           /\ \E i \in 0..19 :
                /\ retval = 2^i
                /\ \A j \in 0..19 : 2^j >= aux.divisor => 2^i <= 2^j
           /\ aux.divisor \in {0, 1} => retval = 1

\* a divisor just above a power of two: 513 gives 1024
C21_Witness ==
    /\ pc = "done" /\ aux.fn = "SystemFindLargestPower2"
    /\ aux.divisor = 513
    /\ retval = 1024

\* C22: for every d in 0..600, 2^SystemFindNearestPower2Exp(d) is
\* SystemFindNearestPower2(d) and 2^SystemFindLargestPower2Exp(d) is
\* SystemFindLargestPower2(d).
C22_ExponentsAgreeWithValues ==
    /\ (pc = "done" /\ aux.fn = "SystemFindNearestPower2Exp")
            => retval \in 0..30 /\ 2^retval = SystemFindNearestPower2(aux.divisor)
    /\ (pc = "done" /\ aux.fn = "SystemFindLargestPower2Exp")
            => retval \in 0..30 /\ 2^retval = SystemFindLargestPower2(aux.divisor)

\* the exponent of the value that was doubled: 300 is nearest to 256 and gives 9
C22_Witness ==
    /\ pc = "done" /\ aux.fn = "SystemFindLargestPower2Exp"
    /\ aux.divisor = 300
    /\ SystemFindNearestPower2Exp(300) = 8
    /\ retval = 9

\* C23: SystemSetCoreClockFrequency(f), f in Hz a multiple of 1 MHz, leaves the
\* core clocked from the PLL at min(f, 216 MHz): when it returns the mux
\* selects the PLL, SystemCoreClock is the returned value and the multiplier
\* in PLLCFGR is within 50..432.
C23_CoreAtRequestedFrequency ==
    (pc = "SCCF_ret" /\ aux.freq >= 1000000 /\ aux.freq % 1000000 = 0)
        => /\ RCC_CFGR \cap RCC_CFGR_SW = RCC_CFGR_SW_PLL
           /\ SystemCoreClock = aux.freq
           /\ Field(RCC_PLLCFGR, RCC_PLLCFGR_PLLN) \in 50..432

C29_PrescalersKept ==
    pc = "CMP_ret"
        => /\ \A f \in {RCC_CFGR_HPRE, RCC_CFGR_PPRE1, RCC_CFGR_PPRE2} :
                RCC_CFGR \cap f = cmp.entry.cfgr \cap f
           /\ LET written == RCC_PLLCFGR_PLLM \cup RCC_PLLCFGR_PLLN \cup RCC_PLLCFGR_PLLP
                                \cup RCC_PLLCFGR_PLLQ \cup RCC_PLLCFGR_PLLSRC
              IN  RCC_PLLCFGR \ written = cmp.entry.pllcfgr \ written

\* C25: the flag MainPLLConfigured is sticky: it is clear at start, it is set
\* by the step of SystemConfigMainPLL that completes a configuration with a
\* valid source and by no other step, no step of SystemInit,
\* SystemConfigMainPLL, SystemConfigPLLSAI or SystemConfigPLLI2S clears it, and
\* a call of SystemConfigPLLSAI or SystemConfigPLLI2S made while it is set is
\* not refused.
C25_ConfiguredFlagSticky ==
    [][/\ pc = "reset" => MainPLLConfigured = 0
       /\ MainPLLConfigured = 1 => MainPLLConfigured' = 1
       /\ (pc = "CMP_pll_wait" /\ pc' # pc) => MainPLLConfigured' = 1
       /\ MainPLLConfigured' # MainPLLConfigured
            => /\ pc = "CMP_pll_wait"
               /\ cmp.pllconfig.source \in {CLOCKSRC_HSI, CLOCKSRC_HSE}
       /\ (pc = "main" /\ MainPLLConfigured = 1
                /\ pc' \in {"SAI_off", "SAI_ret", "I2S_off", "I2S_ret"})
            => pc' \in {"SAI_off", "I2S_off"}]_vars

\* SystemInit has switched the main PLL off after it was configured, and a
\* configuration of PLLSAI is under way
C25_Witness ==
    /\ pc = "SAI_write"
    /\ MainPLLConfigured = 1
    /\ ~(RCC_CR_PLLON \subseteq RCC_CR)

\* C27: the result of SystemSetCoreClock tells success from failure: it is the
\* success value 0 exactly when the requested source is one of HSI, HSE, PLL
\* and the wait-state lookup for the new frequency succeeded, and another
\* value otherwise.
C27_ResultTellsFailure ==
    [][(pc = "SCC_ret" /\ pc' # pc)
          => (retval' = 0
                <=> /\ scc.newsrc \in {CLOCKSRC_HSI, CLOCKSRC_HSE, CLOCKSRC_PLL}
                    /\ FindFlashWaitStates(SystemCoreClock, VSUPPLY) # -1)]_vars

\* C28: for each source s of HSI, HSE, PLL, SystemSetCoreClock(s, d) called
\* while s drives the core takes the divisor-only path: when d is not smaller
\* than the AHB divisor at the call, it writes neither the worst-case
\* wait-state count nor the safe APB dividers before the AHB prescaler, and
\* it does not write the mux.
C28_SameSourceTakesDivisorPath ==
    LET driving == CASE scc.entry.cfgr \cap RCC_CFGR_SW = RCC_CFGR_SW_HSI -> CLOCKSRC_HSI
                     [] scc.entry.cfgr \cap RCC_CFGR_SW = RCC_CFGR_SW_HSE -> CLOCKSRC_HSE
                     [] scc.entry.cfgr \cap RCC_CFGR_SW = RCC_CFGR_SW_PLL -> CLOCKSRC_PLL
                     [] OTHER -> -1
    IN  (/\ pc \in {"SCC_s_ws", "SCC_s_apb1", "SCC_s_apb2",
                    "SCC_c_ws", "SCC_c_apb1", "SCC_c_apb2", "SCC_c_hpre",
                    "SCC_hsi_on", "SCC_hsi_wait", "SCC_sw_hsi",
                    "SCC_hse_on", "SCC_hse_wait", "SCC_sw_hse",
                    "SCC_p_apb1", "SCC_p_apb2", "SCC_sw_pll"}
         /\ scc.newdiv >= hpre_table[Field(scc.entry.cfgr, RCC_CFGR_HPRE) + 1])
            => scc.newsrc # driving

\* C30: SetFlashWaitStates(n), n in 0..15, changes only the LATENCY field of
\* FLASH_ACR: every other bit of the register (ART enable, prefetch enable)
\* keeps its value and the LATENCY field reads n afterwards. The calls are
\* those of SystemSetCoreClock, with MAXWAITSTATES and with the count found
\* for the new frequency.
C30_OnlyLatencyChanges ==
    [][/\ (pc \in {"SCC_s_ws", "SCC_c_ws"} /\ pc' # pc)
            => /\ FLASH_ACR' \ FLASH_ACR_LATENCY = FLASH_ACR \ FLASH_ACR_LATENCY
               /\ Field(FLASH_ACR', FLASH_ACR_LATENCY) = MAXWAITSTATES
       /\ (pc = "SCC_cfgws" /\ pc' # pc
                /\ FindFlashWaitStates(SystemCoreClock, VSUPPLY) \in 0..15)
            => /\ FLASH_ACR' \ FLASH_ACR_LATENCY = FLASH_ACR \ FLASH_ACR_LATENCY
               /\ Field(FLASH_ACR', FLASH_ACR_LATENCY)
                    = FindFlashWaitStates(SystemCoreClock, VSUPPLY)]_vars

\* C26: every call SystemSetCoreClock(src, div) with src one of HSI, HSE, PLL
\* eventually returns, given that each oscillator or PLL that is on eventually
\* raises its ready bit; and the call gets past a busy-wait only with the ready
\* bit up, so that the mux is written to a source only when that source is
\* ready.
C26_ReturnsWhenReadyElseSpins ==
    /\ (pc \in {"SCC_s_ws", "SCC_s_hpre", "SCC_c_ws"}
            /\ scc.newsrc \in {CLOCKSRC_HSI, CLOCKSRC_HSE, CLOCKSRC_PLL})
         ~> (pc = "SCC_ret")
    /\ [](/\ pc = "SCC_sw_hsi" => RCC_CR_HSIRDY \subseteq RCC_CR
          /\ pc = "SCC_sw_hse" => RCC_CR_HSERDY \subseteq RCC_CR
          /\ pc = "SCC_sw_pll" => RCC_CR_PLLRDY \subseteq RCC_CR)

\* C31: round trip of the main PLL configuration: for a valid configuration c
\* (M in 2..63, N in 50..432, P in {2,4,6,8}, Q in 2..15, source HSI or HSE),
\* SystemGetPLLConfiguration(PLL_MAIN) called when SystemConfigMainPLL(c) has
\* returned gives the source, M, N, P and Q of c.
C31_PLLConfigurationRoundTrip ==
    (/\ pc = "CMP_ret"
     /\ cmp.pllconfig.source \in {CLOCKSRC_HSI, CLOCKSRC_HSE}
     /\ cmp.pllconfig.M \in 2..63 /\ cmp.pllconfig.N \in 50..432
     /\ cmp.pllconfig.P \in {2, 4, 6, 8} /\ cmp.pllconfig.Q \in 2..15)
        => \A f \in {"source", "M", "N", "P", "Q"} :
                SystemGetPLLConfiguration[f] = cmp.pllconfig[f]

\* C32: in every state reached by SystemInit, SystemConfigMainPLL (with any
\* source value) and SystemSetCoreClock, the source the mux selects (field SW)
\* is switched on and ready.
C32_SelectedSourceReady ==
    LET sw == RCC_CFGR \cap RCC_CFGR_SW
    IN  /\ sw = RCC_CFGR_SW_HSI => (RCC_CR_HSION \cup RCC_CR_HSIRDY) \subseteq RCC_CR
        /\ sw = RCC_CFGR_SW_HSE => (RCC_CR_HSEON \cup RCC_CR_HSERDY) \subseteq RCC_CR
        /\ sw = RCC_CFGR_SW_PLL => (RCC_CR_PLLON \cup RCC_CR_PLLRDY) \subseteq RCC_CR

\* C33: for a valid main PLL configuration c, P being 2, 4, 6 or 8, when
\* SystemConfigMainPLL(c) and then SystemSetCoreClock(CLOCKSRC_PLL, 1) have
\* returned, SystemCoreClock is floor(floor(input*N/M)/P) for the factors of
\* c, and the frequency is computed from the registers without a division by
\* zero. c is the configuration of MainPLLInputs whose source, M, N and Q are
\* in PLLCFGR; the PLL is running.
C33_CoreClockFromConfiguredFactors ==
    \A c \in MainPLLInputs :
        (/\ c.source \in {CLOCKSRC_HSI, CLOCKSRC_HSE}
         /\ c.P \in {2, 4, 6, 8}
         /\ SystemGetPLLConfiguration.source = c.source
         /\ Field(RCC_PLLCFGR, RCC_PLLCFGR_PLLM) = c.M
         /\ Field(RCC_PLLCFGR, RCC_PLLCFGR_PLLN) = c.N
         /\ Field(RCC_PLLCFGR, RCC_PLLCFGR_PLLQ) = c.Q
         /\ RCC_CR_PLLRDY \subseteq RCC_CR
         /\ scc.newsrc = CLOCKSRC_PLL /\ scc.newdiv = 1)
            => /\ pc # "HardFault"
               /\ pc = "SCC_update" => ~CoreClockDivisionByZero
               /\ pc = "SCC_ret"
                    => LET mhz == IF c.source = CLOCKSRC_HSI THEN 16 ELSE 25
                           x   == mhz * c.N
                           d2  == ((x % c.M) * 1000) \div c.M
                           r2  == ((x % c.M) * 1000) % c.M
                           d3  == (r2 * 1000) \div c.M
                           vco == (x \div c.M) * 1000000 + d2 * 1000 + d3
                       IN  SystemCoreClock = vco \div c.P

\* C34: writing the AHB prescaler changes only the HPRE field of RCC_CFGR: for
\* every divisor d in 1..600, SystemSetAHBPrescaler(d) leaves the APB1 and
\* APB2 prescaler fields and the mux selection as they were (the AHB write of
\* SystemSetCoreClock stores the same value).
C34_AHBWriteKeepsOtherFields ==
    [][(pc = "main" /\ aux.fn = "SystemSetAHBPrescaler" /\ pc' = "done")
          => \A f \in {RCC_CFGR_PPRE1, RCC_CFGR_PPRE2, RCC_CFGR_SW} :
                RCC_CFGR' \cap f = RCC_CFGR \cap f]_vars

\* C35: SystemSetAPB1Prescaler(div), for every div >= 1, changes at most the
\* PPRE1 field of RCC_CFGR; when it writes, the prescaler SystemGetAPB1Prescaler
\* reads back is the smallest of 1, 2, 4, 8, 16 that is at least div; when it
\* skips, RCC_CFGR is unchanged.
C35_APB1WriteKeepsOtherFields ==
    [][(pc = "main" /\ aux.fn = "SystemSetAPB1Prescaler" /\ pc' = "done")
          => IF SystemCoreClock \div aux.divisor > 54000000
             THEN RCC_CFGR' = RCC_CFGR
             ELSE /\ RCC_CFGR' \ RCC_CFGR_PPRE1 = RCC_CFGR \ RCC_CFGR_PPRE1
                  /\ LET read == ppre_table[Field(RCC_CFGR', RCC_CFGR_PPRE1) + 1]
                     IN  /\ read >= aux.divisor
                         /\ \A p \in {1, 2, 4, 8, 16} : p >= aux.divisor => read <= p]_vars

\* C36: MAXWAITSTATES (9) is at least every value a successful lookup of
\* FindFlashWaitStates returns, for every voltage row and every frequency of
\* the table.
C36_MaxWaitStatesCoversTable ==
    (pc = "done" /\ aux.fn = "FindFlashWaitStates" /\ retval # -1)
        => retval \in 0..MAXWAITSTATES

\* the largest count of the table: 216 MHz in the 2100 mV row needs 9 wait states
C36_Witness ==
    /\ pc = "done" /\ aux.fn = "FindFlashWaitStates"
    /\ aux.freq = 216 /\ aux.voltage = 2399
    /\ retval = MAXWAITSTATES

====
